---- MODULE Spec2Model ----
(***************************************************************************)
(* A model of models/_models.py of amt-apc: Pipeline.wav2midi, the         *)
(* Spec2MIDI wrapper (constructor, encode, decode, forward), load_model    *)
(* and save_model.                                                         *)
(*                                                                         *)
(* Four specifications share the module, one per entry point:              *)
(*   SpecPipe   Pipeline.wav2midi                                          *)
(*   SpecLoad   load_model                                                 *)
(*   SpecSave   save_model (and the plain, non-strict reload)              *)
(*   SpecModel  Spec2MIDI.__init__ / encode / decode / forward             *)
(* Each leaves the variables of the other three at their initial values.   *)
(***************************************************************************)
EXTENDS Integers, Sequences, FiniteSets, TLC

VARIABLES
    \* ---- Pipeline.wav2midi
    pc,             \* position inside wav2midi
    self_device,    \* Pipeline.device
    sv_arg,         \* the sv argument of the call
    sv,             \* the local sv after lines 83-90
    calls,          \* delegated AMT steps invoked so far, in order
    succeeded,      \* delegated AMT steps that returned normally
    transcript_sv,  \* the sv handed to self.transcript
    error,          \* the exception that left wav2midi, if any
    \* ---- load_model
    lpc,            \* position inside load_model
    l_amt,          \* argument amt
    l_path_arg,     \* argument path_model
    l_no_load,      \* argument no_load
    l_files,        \* what the file system holds at each path
    l_path,         \* local path_model after lines 176-179
    l_reads,        \* paths handed to torch.load, in order
    l_model,        \* the model under construction / returned
    l_error,        \* the exception that left load_model, if any
    \* ---- save_model
    spc,            \* position of the save scenario
    plain_names,    \* parameter names of the plain architecture, in order
    state_dict,     \* model.state_dict(): sequence of <<key, value>>
    checkpoint,     \* the OrderedDict written by torch.save
    reloaded,       \* values of the plain architecture after a reload
    \* ---- Spec2MIDI
    mpc,            \* position of the model scenario
    m_x,            \* the input x of this run
    m_batch,        \* batch size of x
    w_seed,         \* the weights of fc_sv and gate_sv of this run
    m_sv_dim_arg,   \* the sv_dim handed to the constructor
    model,          \* the Spec2MIDI object
    m_sv,           \* the sv of the last encode / forward call
    m_op,           \* which of encode / forward was called last
    m_out           \* what the last call returned

pipeVars  == <<pc, self_device, sv_arg, sv, calls, succeeded, transcript_sv, error>>
loadVars  == <<lpc, l_amt, l_path_arg, l_no_load, l_files, l_path, l_reads, l_model, l_error>>
saveVars  == <<spc, plain_names, state_dict, checkpoint, reloaded>>
modelVars == <<mpc, m_x, m_batch, w_seed, m_sv_dim_arg, model, m_sv, m_op, m_out>>
vars == <<pipeVars, loadVars, saveVars, modelVars>>

(***************************************************************************)
(* Generic helpers                                                         *)
(***************************************************************************)
RECURSIVE Prod(_)
Prod(s) == IF s = <<>> THEN 1 ELSE Head(s) * Prod(Tail(s))

IsPrefix(s, t) == Len(s) <= Len(t) /\ SubSeq(t, 1, Len(s)) = s

\* Python's None, as a tensor-shaped record so that it compares with tensors.
None == [tag |-> "None", shape |-> <<>>, data |-> <<>>, device |-> ""]

(***************************************************************************)
(* Pipeline.wav2midi                                                       *)
(***************************************************************************)
MaxRank  == 3       \* largest rank of a style vector handed to wav2midi
MaxDim   == 2       \* largest size of one dimension
MaxElems == 2       \* largest number of elements of a style vector

TensorVals == {0, 1}
Devices == {"cpu", "cuda"}

SvShapes ==
    { s \in UNION { [1..r -> 1..MaxDim] : r \in 0..MaxRank } : Prod(s) <= MaxElems }

\* Every torch.Tensor a caller may hand over: a shape and its flat contents.
SvTensors ==
    UNION { { [tag |-> "Tensor", shape |-> s, data |-> d, device |-> "cpu"] :
                d \in [1..Prod(s) -> TensorVals] } : s \in SvShapes }

SvArgs == {None} \cup SvTensors

\* torch.Tensor.dim()
Dim(t) == Len(t.shape)

UnsqueezeLast(t) == [t EXCEPT !.shape = t.shape \o <<1>>]

\* torch.Tensor.unsqueeze(0): a leading dimension of size 1, contents untouched.
Unsqueeze0(t) == [t EXCEPT !.shape = <<1>> \o t.shape]

\* torch.Tensor.to(device)
To(t, dev) == [t EXCEPT !.device = dev]

RankAcceptedAtLeast2(d) == d >= 2

\* The test of line 86.
RankAccepted(d) == d = 2

\* Lines 83-90: the outcome of the style-vector block.
NormalizeSv(s, dev) ==
    IF s = None
    THEN [ok |-> TRUE, sv |-> None]
    ELSE LET s1 == IF Dim(s) = 1 THEN Unsqueeze0(s) ELSE s
         IN  IF RankAccepted(Dim(s1))
             THEN [ok |-> TRUE, sv |-> To(s1, dev)]
             ELSE [ok |-> FALSE, sv |-> s1]

\* Line 90: moving a tensor to another device may fail (no such device, no
\* memory); staying on its device cannot.
ToOutcomes(s, dev) ==
    IF s # None /\ s.device # dev THEN BOOLEAN ELSE {TRUE}

\* The delegated steps of lines 92-103, in program order.
Steps == <<"wav2feature", "transcript", "mpe2note", "note2midi">>

NoError == [kind |-> "", shape |-> <<>>]

AfterStepNoAbort(i, ok) == IF i < Len(Steps) THEN Steps[i + 1] ELSE "returned"

\* Where control goes after step i: an exception leaves wav2midi at once.
AfterStep(i, ok) ==
    IF ok THEN (IF i < Len(Steps) THEN Steps[i + 1] ELSE "returned")
    ELSE "raised"

\* A caller enters wav2midi (a Pipeline may be used for call after call).
Wav2MidiCall ==
    /\ pc \in {"idle", "returned", "raised"}
    /\ \E s \in SvArgs : sv_arg' = s /\ sv' = s
    /\ pc' = "validate"
    /\ calls' = <<>>
    /\ succeeded' = <<>>
    /\ transcript_sv' = None
    /\ error' = NoError
    /\ UNCHANGED self_device
    /\ UNCHANGED <<loadVars, saveVars, modelVars>>

\* Lines 83-90.
ValidateSv ==
    /\ pc = "validate"
    /\ LET r == NormalizeSv(sv, self_device)
       IN  \E moved \in ToOutcomes(sv, self_device) :
             IF ~r.ok
             THEN /\ sv' = r.sv
                  /\ pc' = "raised"
                  /\ error' = [kind |-> "ValueError", shape |-> r.sv.shape]
             ELSE IF moved
             THEN /\ sv' = r.sv
                  /\ pc' = Steps[1]
                  /\ error' = NoError
             ELSE /\ sv' = (IF Dim(sv) = 1 THEN Unsqueeze0(sv) ELSE sv)
                  /\ pc' = "raised"
                  /\ error' = [kind |-> "RuntimeError", shape |-> <<>>]
    /\ UNCHANGED <<self_device, sv_arg, calls, succeeded, transcript_sv>>
    /\ UNCHANGED <<loadVars, saveVars, modelVars>>

\* One delegated call: it is invoked, and returns or raises.
Delegate(i) ==
    /\ pc = Steps[i]
    /\ calls' = Append(calls, Steps[i])
    /\ \E ok \in BOOLEAN :
         /\ pc' = AfterStep(i, ok)
         /\ succeeded' = IF ok THEN Append(succeeded, Steps[i]) ELSE succeeded
         /\ error' = IF ok THEN error ELSE [kind |-> Steps[i], shape |-> <<>>]

\* Line 92.
Wav2Feature ==
    /\ Delegate(1)
    /\ UNCHANGED <<self_device, sv_arg, sv, transcript_sv>>
    /\ UNCHANGED <<loadVars, saveVars, modelVars>>

\* Line 93.
Transcript ==
    /\ Delegate(2)
    /\ transcript_sv' = sv
    /\ UNCHANGED <<self_device, sv_arg, sv>>
    /\ UNCHANGED <<loadVars, saveVars, modelVars>>

\* Lines 94-102.
Mpe2Note ==
    /\ Delegate(3)
    /\ UNCHANGED <<self_device, sv_arg, sv, transcript_sv>>
    /\ UNCHANGED <<loadVars, saveVars, modelVars>>

\* Line 103.
Note2Midi ==
    /\ Delegate(4)
    /\ UNCHANGED <<self_device, sv_arg, sv, transcript_sv>>
    /\ UNCHANGED <<loadVars, saveVars, modelVars>>

PipeNext ==
    \/ Wav2MidiCall
    \/ ValidateSv
    \/ Wav2Feature
    \/ Transcript
    \/ Mpe2Note
    \/ Note2Midi

(***************************************************************************)
(* load_model                                                              *)
(***************************************************************************)
\* A Python `str | None` argument.
NoPath == [tag |-> "None", val |-> ""]
Str(s) == [tag |-> "str", val |-> s]

\* CONFIG["default"]["amt"] and CONFIG["default"]["pc"] of models/config.json.
ConfigDefaultAmt == "models/params/amt.pth"
ConfigDefaultPc == "models/params/apc.pth"

ExplicitPaths == {"", "ckpt/a.pth"}
AllPaths == ExplicitPaths \cup {ConfigDefaultAmt, ConfigDefaultPc}
PathArgs == {NoPath} \cup { Str(p) : p \in ExplicitPaths }

\* What torch.load finds at a path. The empty path names no file.
FileStates == {"ok", "missing", "corrupt"}
FileSystems == { f \in [AllPaths -> FileStates] : f[""] = "missing" }

\* Python truthiness of path_model: None and "" are falsy.
Truthy(p) == p.tag = "str" /\ p.val # ""

\* `a or b`
Or(p, default) == IF Truthy(p) THEN p.val ELSE default

ResolvePathSwapped(amt, p) ==
    IF amt THEN Or(p, ConfigDefaultPc) ELSE Or(p, ConfigDefaultAmt)

\* Lines 176-179.
ResolvePath(amt, p) ==
    IF amt THEN Or(p, ConfigDefaultAmt) ELSE Or(p, ConfigDefaultPc)

AlwaysReads(no_load) == TRUE

\* Line 207: `if not no_load`.
ReadsCheckpoint(no_load) == ~no_load

NoModel == [built |-> FALSE, weights |-> "", returned |-> FALSE]

\* A caller enters load_model.
LoadModelCall ==
    /\ lpc \in {"idle", "returned", "raised"}
    /\ l_amt' \in BOOLEAN
    /\ l_path_arg' \in PathArgs
    /\ l_no_load' \in BOOLEAN
    /\ lpc' = "resolve"
    /\ l_path' = ""
    /\ l_reads' = <<>>
    /\ l_model' = NoModel
    /\ l_error' = ""
    /\ UNCHANGED l_files
    /\ UNCHANGED <<pipeVars, saveVars, modelVars>>

\* Lines 176-179.
ResolveStep ==
    /\ lpc = "resolve"
    /\ l_path' = ResolvePath(l_amt, l_path_arg)
    /\ lpc' = "build"
    /\ UNCHANGED <<l_amt, l_path_arg, l_no_load, l_files, l_reads, l_model, l_error>>
    /\ UNCHANGED <<pipeVars, saveVars, modelVars>>

\* Lines 181-206: encoder, decoder and the Spec2MIDI wrapper, freshly initialised.
BuildModel ==
    /\ lpc = "build"
    /\ l_model' = [built |-> TRUE, weights |-> "random", returned |-> FALSE]
    /\ lpc' = "load"
    /\ UNCHANGED <<l_amt, l_path_arg, l_no_load, l_files, l_path, l_reads, l_error>>
    /\ UNCHANGED <<pipeVars, saveVars, modelVars>>

\* Lines 207-209: torch.load and the non-strict load_state_dict, or neither.
LoadWeights ==
    /\ lpc = "load"
    /\ IF ReadsCheckpoint(l_no_load)
       THEN /\ l_reads' = Append(l_reads, l_path)
            /\ IF l_files[l_path] = "ok"
               THEN /\ l_model' = [l_model EXCEPT !.weights = l_path]
                    /\ lpc' = "to_device"
                    /\ l_error' = l_error
               ELSE /\ l_model' = l_model
                    /\ lpc' = "raised"
                    /\ l_error' = IF l_files[l_path] = "missing"
                                  THEN "FileNotFoundError" ELSE "UnpicklingError"
       ELSE /\ lpc' = "to_device"
            /\ UNCHANGED <<l_reads, l_model, l_error>>
    /\ UNCHANGED <<l_amt, l_path_arg, l_no_load, l_files, l_path>>
    /\ UNCHANGED <<pipeVars, saveVars, modelVars>>

\* Lines 210-211.
ReturnModel ==
    /\ lpc = "to_device"
    /\ l_model' = [l_model EXCEPT !.returned = TRUE]
    /\ lpc' = "returned"
    /\ UNCHANGED <<l_amt, l_path_arg, l_no_load, l_files, l_path, l_reads, l_error>>
    /\ UNCHANGED <<pipeVars, saveVars, modelVars>>

LoadNext ==
    \/ LoadModelCall
    \/ ResolveStep
    \/ BuildModel
    \/ LoadWeights
    \/ ReturnModel

(***************************************************************************)
(* save_model                                                              *)
(***************************************************************************)
MaxSegs   == 1      \* path segments between the head and the leaf of a name
MaxParams == 2      \* parameters of the model
MaxWraps  == 2      \* wrapping layers (torch.compile, DistributedDataParallel)

\* Keys are Python strings: sequences of characters.
OrigModPrefix == <<"_", "o", "r", "i", "g", "_", "m", "o", "d", ".">>
ModulePrefix  == <<"m", "o", "d", "u", "l", "e", ".">>
EncSeg        == <<"e", "n", "c", ".">>
SubSeg        == <<"s", "u", "b">>
Leaf          == <<"w">>

RECURSIVE Concat(_)
Concat(ss) == IF ss = <<>> THEN <<>> ELSE Head(ss) \o Concat(Tail(ss))

\* Names of the plain architecture: none starts with a wrapper prefix, but a
\* path may hold a submodule called "module", "submodule" or a compiled part.
NameHeads == {EncSeg, SubSeg}
NameMids  == {ModulePrefix, OrigModPrefix, SubSeg}
PlainNames ==
    { h \o Concat(m) \o Leaf :
        h \in NameHeads, m \in UNION { [1..n -> NameMids] : n \in 0..MaxSegs } }

ParamVals == {"t1", "t2"}

IsInjective(s) == \A i, j \in 1..Len(s) : s[i] = s[j] => i = j
NameLists ==
    { s \in UNION { [1..n -> PlainNames] : n \in 1..MaxParams } : IsInjective(s) }

StartsWith(s, p) == Len(s) >= Len(p) /\ SubSeq(s, 1, Len(p)) = p

\* str.replace(old, ""): every non-overlapping occurrence, scanning from the left.
RECURSIVE Replace(_, _)
Replace(s, old) ==
    IF Len(s) < Len(old) THEN s
    ELSE IF StartsWith(s, old)
         THEN Replace(SubSeq(s, Len(old) + 1, Len(s)), old)
         ELSE <<Head(s)>> \o Replace(Tail(s), old)

\* Line 225.
NormalizeKey(key) == Replace(Replace(key, OrigModPrefix), ModulePrefix)

\* OrderedDict.__setitem__: a new key goes last, a known key keeps its place.
OdSet(od, k, v) ==
    IF \E i \in 1..Len(od) : od[i][1] = k
    THEN [i \in 1..Len(od) |-> IF od[i][1] = k THEN <<k, v>> ELSE od[i]]
    ELSE Append(od, <<k, v>>)

\* Lines 223-226: the loop over state_dict.items().
RECURSIVE CorrectStateDict(_, _)
CorrectStateDict(od, items) ==
    IF items = <<>> THEN od
    ELSE CorrectStateDict(OdSet(od, NormalizeKey(Head(items)[1]), Head(items)[2]),
                          Tail(items))

\* dict lookup, "absent" when the key is missing.
OdGet(od, k) ==
    IF \E i \in 1..Len(od) : od[i][1] = k
    THEN (CHOOSE e \in { od[i] : i \in 1..Len(od) } : e[1] = k)[2]
    ELSE "absent"

\* Wrapping a module prefixes every key its state_dict() reports.
Prefixed(sd, p) == [i \in 1..Len(sd) |-> <<p \o sd[i][1], sd[i][2]>>]

\* How many wrappers a key shows.
RECURSIVE WrapDepth(_)
WrapDepth(key) ==
    IF StartsWith(key, OrigModPrefix)
    THEN 1 + WrapDepth(SubSeq(key, Len(OrigModPrefix) + 1, Len(key)))
    ELSE IF StartsWith(key, ModulePrefix)
         THEN 1 + WrapDepth(SubSeq(key, Len(ModulePrefix) + 1, Len(key)))
         ELSE 0

\* torch.compile(model): state_dict() reports "_orig_mod." + key.
WrapCompile ==
    /\ spc = "model"
    /\ WrapDepth(state_dict[1][1]) < MaxWraps
    /\ state_dict' = Prefixed(state_dict, OrigModPrefix)
    /\ UNCHANGED <<spc, plain_names, checkpoint, reloaded>>
    /\ UNCHANGED <<pipeVars, loadVars, modelVars>>

\* DistributedDataParallel(model): state_dict() reports "module." + key.
WrapDDP ==
    /\ spc = "model"
    /\ WrapDepth(state_dict[1][1]) < MaxWraps
    /\ state_dict' = Prefixed(state_dict, ModulePrefix)
    /\ UNCHANGED <<spc, plain_names, checkpoint, reloaded>>
    /\ UNCHANGED <<pipeVars, loadVars, modelVars>>

\* Lines 222-228.
SaveModel ==
    /\ spc = "model"
    /\ checkpoint' = CorrectStateDict(<<>>, state_dict)
    /\ spc' = "saved"
    /\ UNCHANGED <<plain_names, state_dict, reloaded>>
    /\ UNCHANGED <<pipeVars, loadVars, modelVars>>

\* Lines 208-209 on the plain architecture: a parameter whose name the
\* checkpoint lacks keeps its fresh value (strict=False).
LoadPlain ==
    /\ spc = "saved"
    /\ reloaded' = [i \in 1..Len(plain_names) |->
                      LET v == OdGet(checkpoint, plain_names[i])
                      IN  IF v = "absent" THEN "fresh" ELSE v]
    /\ spc' = "reloaded"
    /\ UNCHANGED <<plain_names, state_dict, checkpoint>>
    /\ UNCHANGED <<pipeVars, loadVars, modelVars>>

SaveNext ==
    \/ WrapCompile
    \/ WrapDDP
    \/ SaveModel
    \/ LoadPlain

(***************************************************************************)
(* Spec2MIDI                                                               *)
(*                                                                         *)
(* Real numbers are fixed-point: the integer n stands for n / FxOne.       *)
(***************************************************************************)
MaxSvDim == 2       \* largest sv_dim handed to the constructor
MaxBatch == 1       \* largest batch size
NFrame   == 2       \* frames of the encoder's output
NBin     == 2       \* bins of the encoder's output
HidDim   == 2       \* encoder.hid_dim
MaxSeed  == 1       \* largest seed of the weights of fc_sv and gate_sv
MaxX     == 1       \* largest input x
FxOne    == 2       \* the fixed-point representation of 1.0

RECURSIVE Dot(_, _)
Dot(w, v) == IF w = <<>> THEN 0 ELSE Head(w) * Head(v) + Dot(Tail(w), Tail(v))

\* Fixed-point product.
Mul(a, b) == (a * b) \div FxOne

\* The external encoder: a deterministic map from x to a tensor of shape
\* (batch, frames, bins, hid_dim) with entries -1.0, 0.0 or 1.0.
Encoder(x, batch) ==
    [b \in 1..batch |-> [f \in 1..NFrame |-> [n \in 1..NBin |-> [k \in 1..HidDim |->
        FxOne * (((x + b + f + 2 * n + k) % 3) - 1)]]]]

\* The external decoder: nine outputs, each a function of h alone.
DecoderOutputs ==
    <<"onset_f", "offset_f", "mpe_f", "velocity_f", "attention",
      "onset_t", "offset_t", "mpe_t", "velocity_t">>
Decoder(h) == [i \in 1..Len(DecoderOutputs) |-> [output |-> DecoderOutputs[i], of |-> h]]

\* Integer weights and biases of a layer, derived from its seed.
Weights(seed, nout, nin) ==
    [k \in 1..nout |-> [j \in 1..nin |-> 2 * (((seed + k + 2 * j) % 3) - 1)]]
Biases(seed, nout) == [k \in 1..nout |-> (seed + k) % 2]

\* nn.Linear.forward on one vector: W v + b.
Linear(W, bias, v) == [k \in 1..Len(W) |-> Dot(W[k], v) + bias[k] * FxOne]

\* nn.ReLU
ReLU(v) == [k \in 1..Len(v) |-> IF v[k] < 0 THEN 0 ELSE v[k]]

\* nn.Sigmoid on the fixed-point grid: saturated below -2.0 and above 2.0.
Sigmoid(v) ==
    [k \in 1..Len(v) |-> IF v[k] <= -2 * FxOne THEN 0
                         ELSE IF v[k] >= 2 * FxOne THEN FxOne
                         ELSE FxOne \div 2]

\* Line 116: fc_sv on one style vector.
FcSv(seed, hid, v) ==
    Linear(Weights(seed + 2, hid, Len(v)), Biases(seed + 2, hid), v)

\* Lines 117-122: gate_sv on one hidden vector.
GateSv(seed, v) ==
    Sigmoid(Linear(Weights(seed + 1, Len(v), Len(v)), Biases(seed + 1, Len(v)),
                   ReLU(Linear(Weights(seed, Len(v), Len(v)), Biases(seed, Len(v)), v))))

\* torch.empty refuses a negative dimension, so nn.Linear raises on one.
LinearCtorOk(nin, nout) == nin >= 0 /\ nout >= 0

TruthyAlways(n) == TRUE

\* Python truthiness of an int: `if sv_dim:`.
TruthyInt(n) == n # 0

NoSpec2MIDI ==
    [constructed |-> FALSE, sv_dim |-> 0, attrs |-> {}, fc_in |-> 0, fc_out |-> 0]

\* Lines 107-122. super().__init__ creates encoder_spec2midi and
\* decoder_spec2midi, which lines 111-112 delete again.
Spec2MIDIInit(sv_dim, hid_dim) ==
    LET base == {"encoder_spec2midi", "decoder_spec2midi"}
        own  == ((base \cup {"encoder", "decoder"})
                   \ {"encoder_spec2midi"}) \ {"decoder_spec2midi"}
    IN  IF TruthyInt(sv_dim)
        THEN IF LinearCtorOk(sv_dim, hid_dim)
             THEN [constructed |-> TRUE, sv_dim |-> sv_dim,
                   attrs |-> own \cup {"fc_sv", "gate_sv"},
                   fc_in |-> sv_dim, fc_out |-> hid_dim]
             ELSE [constructed |-> FALSE, sv_dim |-> sv_dim, attrs |-> own,
                   fc_in |-> 0, fc_out |-> 0]
        ELSE [constructed |-> TRUE, sv_dim |-> sv_dim, attrs |-> own,
              fc_in |-> 0, fc_out |-> 0]

\* No style vector: Python's None.
NoSv == <<>>

\* Style vectors as encode receives them: rank 2, (batch, length).
SvBatches(batch) ==
    UNION { [1..batch -> [1..len -> {0, FxOne}]] : len \in 1..MaxSvDim }

UsesStyleWheneverGiven(m, s) == s # NoSv

\* Line 131: `self.sv_dim and (sv is not None)`.
UsesStyle(m, s) == TruthyInt(m.sv_dim) /\ s # NoSv

FuseSwapped(z, h, s) == Mul(z, s) + Mul(FxOne - z, h)

\* Line 137 on one element: z * h + (1 - z) * sv.
Fuse(z, h, s) == Mul(z, h) + Mul(FxOne - z, s)

\* Lines 130-138.
Encode(m, seed, x, batch, s) ==
    LET h == Encoder(x, batch)
    IN  IF UsesStyle(m, s)
        THEN IF "fc_sv" \notin m.attrs
             THEN [ok |-> FALSE, val |-> "AttributeError"]
             ELSE IF Len(s[1]) # m.fc_in
             THEN [ok |-> FALSE, val |-> "RuntimeError"]
             ELSE
               LET sv1 == [b \in 1..Len(s) |-> FcSv(seed, m.fc_out, s[b])]
                   n_frames == Len(h[1])
                   n_bin == Len(h[1][1])
                   sv2 == [b \in 1..Len(sv1) |-> << <<sv1[b]>> >>]
                   sv3 == [b \in 1..Len(sv2) |-> [f \in 1..n_frames |->
                             [n \in 1..n_bin |-> sv2[b][1][1]]]]
                   z == [b \in 1..Len(h) |-> [f \in 1..n_frames |->
                           [n \in 1..n_bin |-> GateSv(seed, h[b][f][n])]]]
               IN  [ok |-> TRUE,
                    val |-> [b \in 1..Len(h) |-> [f \in 1..n_frames |->
                               [n \in 1..n_bin |-> [k \in 1..Len(h[b][f][n]) |->
                                  Fuse(z[b][f][n][k], h[b][f][n][k], sv3[b][f][n][k])]]]]]
        ELSE [ok |-> TRUE, val |-> h]

\* Lines 140-146.
Decode(h) == Decoder(h)

\* Lines 124-127.
Forward(m, seed, x, batch, s) ==
    LET h == Encode(m, seed, x, batch, s)
    IN  IF h.ok THEN [ok |-> TRUE, val |-> Decode(h.val)] ELSE h

\* Spec2MIDI(encoder, decoder, sv_dim): returns the object or raises.
Construct ==
    /\ mpc = "new"
    /\ \E d \in -1..MaxSvDim :
         /\ m_sv_dim_arg' = d
         /\ model' = Spec2MIDIInit(d, HidDim)
         /\ mpc' = IF Spec2MIDIInit(d, HidDim).constructed THEN "ready" ELSE "raised"
    /\ UNCHANGED <<m_x, m_batch, w_seed, m_sv, m_op, m_out>>
    /\ UNCHANGED <<pipeVars, loadVars, saveVars>>

\* model.encode(x, sv). encode reads the model and changes nothing, so one
\* call per run shows every result.
EncodeCall ==
    /\ mpc = "ready"
    /\ \E s \in {NoSv} \cup SvBatches(m_batch) :
         /\ m_sv' = s
         /\ m_out' = Encode(model, w_seed, m_x, m_batch, s)
    /\ m_op' = "encode"
    /\ mpc' = "called"
    /\ UNCHANGED <<m_x, m_batch, w_seed, m_sv_dim_arg, model>>
    /\ UNCHANGED <<pipeVars, loadVars, saveVars>>

\* model(x, sv)
ForwardCall ==
    /\ mpc = "ready"
    /\ \E s \in {NoSv} \cup SvBatches(m_batch) :
         /\ m_sv' = s
         /\ m_out' = Forward(model, w_seed, m_x, m_batch, s)
    /\ m_op' = "forward"
    /\ mpc' = "called"
    /\ UNCHANGED <<m_x, m_batch, w_seed, m_sv_dim_arg, model>>
    /\ UNCHANGED <<pipeVars, loadVars, saveVars>>

ModelNext ==
    \/ Construct
    \/ EncodeCall
    \/ ForwardCall

(***************************************************************************)
(* The four specifications                                                 *)
(***************************************************************************)
PipeInit ==
    /\ pc = "idle"
    /\ self_device \in Devices
    /\ sv_arg = None
    /\ sv = None
    /\ calls = <<>>
    /\ succeeded = <<>>
    /\ transcript_sv = None
    /\ error = NoError
    /\ lpc = "off" /\ l_amt = FALSE /\ l_path_arg = NoPath /\ l_no_load = FALSE
    /\ l_files = [p \in AllPaths |-> "missing"] /\ l_path = "" /\ l_reads = <<>>
    /\ l_model = NoModel /\ l_error = ""
    /\ spc = "off" /\ plain_names = <<>> /\ state_dict = <<>>
    /\ checkpoint = <<>> /\ reloaded = <<>>
    /\ mpc = "off" /\ m_x = 0 /\ m_batch = 1 /\ w_seed = 0
    /\ m_sv_dim_arg = 0 /\ model = NoSpec2MIDI /\ m_sv = NoSv /\ m_op = ""
    /\ m_out = [ok |-> TRUE, val |-> ""]

LoadInit ==
    /\ lpc = "idle"
    /\ l_amt = FALSE
    /\ l_path_arg = NoPath
    /\ l_no_load = FALSE
    /\ l_files \in FileSystems
    /\ l_path = ""
    /\ l_reads = <<>>
    /\ l_model = NoModel
    /\ l_error = ""
    /\ pc = "off" /\ self_device = "cpu" /\ sv_arg = None /\ sv = None
    /\ calls = <<>> /\ succeeded = <<>> /\ transcript_sv = None /\ error = NoError
    /\ spc = "off" /\ plain_names = <<>> /\ state_dict = <<>>
    /\ checkpoint = <<>> /\ reloaded = <<>>
    /\ mpc = "off" /\ m_x = 0 /\ m_batch = 1 /\ w_seed = 0
    /\ m_sv_dim_arg = 0 /\ model = NoSpec2MIDI /\ m_sv = NoSv /\ m_op = ""
    /\ m_out = [ok |-> TRUE, val |-> ""]

\* A plain model: its state_dict() reports the plain names, each with a value.
SaveInit ==
    /\ spc = "model"
    /\ plain_names \in NameLists
    /\ \E vals \in [1..MaxParams -> ParamVals] :
         state_dict = [i \in 1..Len(plain_names) |-> <<plain_names[i], vals[i]>>]
    /\ checkpoint = <<>>
    /\ reloaded = <<>>
    /\ pc = "off" /\ self_device = "cpu" /\ sv_arg = None /\ sv = None
    /\ calls = <<>> /\ succeeded = <<>> /\ transcript_sv = None /\ error = NoError
    /\ lpc = "off" /\ l_amt = FALSE /\ l_path_arg = NoPath /\ l_no_load = FALSE
    /\ l_files = [p \in AllPaths |-> "missing"] /\ l_path = "" /\ l_reads = <<>>
    /\ l_model = NoModel /\ l_error = ""
    /\ mpc = "off" /\ m_x = 0 /\ m_batch = 1 /\ w_seed = 0
    /\ m_sv_dim_arg = 0 /\ model = NoSpec2MIDI /\ m_sv = NoSv /\ m_op = ""
    /\ m_out = [ok |-> TRUE, val |-> ""]

ModelInit ==
    /\ mpc = "new"
    /\ m_x \in 0..MaxX
    /\ m_batch \in 1..MaxBatch
    /\ w_seed \in 0..MaxSeed
    /\ m_sv_dim_arg = 0
    /\ model = NoSpec2MIDI
    /\ m_sv = NoSv
    /\ m_op = ""
    /\ m_out = [ok |-> TRUE, val |-> ""]
    /\ pc = "off" /\ self_device = "cpu" /\ sv_arg = None /\ sv = None
    /\ calls = <<>> /\ succeeded = <<>> /\ transcript_sv = None /\ error = NoError
    /\ lpc = "off" /\ l_amt = FALSE /\ l_path_arg = NoPath /\ l_no_load = FALSE
    /\ l_files = [p \in AllPaths |-> "missing"] /\ l_path = "" /\ l_reads = <<>>
    /\ l_model = NoModel /\ l_error = ""
    /\ spc = "off" /\ plain_names = <<>> /\ state_dict = <<>>
    /\ checkpoint = <<>> /\ reloaded = <<>>

SpecPipe == PipeInit /\ [][PipeNext]_vars

SpecLoad == LoadInit /\ [][LoadNext]_vars

SpecSave == SaveInit /\ [][SaveNext]_vars

SpecModel == ModelInit /\ [][ModelNext]_vars

(***************************************************************************)
(* Properties of Pipeline.wav2midi (SpecPipe)                              *)
(***************************************************************************)
Validated == pc \in {"raised", "returned"} \cup { Steps[i] : i \in 1..Len(Steps) }

\* C1: a style vector of rank 0 or of rank 3 and above makes wav2midi raise
\* ValueError (carrying the offending shape) with none of wav2feature,
\* transcript, mpe2note, note2midi invoked.
C1_RankRejection ==
    (Validated /\ sv_arg # None /\ Dim(sv_arg) \notin {1, 2})
        => /\ pc = "raised"
           /\ error = [kind |-> "ValueError", shape |-> sv_arg.shape]
           /\ calls = <<>>
           /\ succeeded = <<>>

C1_Witness ==
    /\ pc = "raised"
    /\ error.kind = "ValueError"
    /\ sv_arg # None
    /\ Dim(sv_arg) = 3

\* C6: transcript receives None for sv = None, a (1, n) tensor with the same
\* values for a rank-1 sv of length n, and a rank-2 sv with shape and values
\* unchanged.
C6_RankNormalization ==
    (Len(calls) >= 2)
        => /\ calls[2] = "transcript"
           /\ sv_arg = None => transcript_sv = None
           /\ (sv_arg # None /\ Dim(sv_arg) = 1)
                => /\ transcript_sv.tag = "Tensor"
                   /\ transcript_sv.shape = <<1, sv_arg.shape[1]>>
                   /\ transcript_sv.data = sv_arg.data
           /\ (sv_arg # None /\ Dim(sv_arg) = 2)
                => /\ transcript_sv.tag = "Tensor"
                   /\ transcript_sv.shape = sv_arg.shape
                   /\ transcript_sv.data = sv_arg.data

C6_Witness ==
    /\ Len(calls) >= 2
    /\ sv_arg # None
    /\ Dim(sv_arg) = 1
    /\ sv_arg.shape[1] = 2
    /\ transcript_sv.shape = <<1, 2>>

\* C9: the delegated steps run in program order, each at most once, only
\* after the style vector passed validation, and none runs after a step that
\* failed: every invoked step but the last has succeeded, so note2midi runs
\* only after wav2feature, transcript and mpe2note succeeded.
C9_StepOrder ==
    /\ IsPrefix(calls, Steps)
    /\ IsPrefix(succeeded, calls)
    /\ Len(calls) <= Len(succeeded) + 1
    /\ calls # <<>> => (sv_arg = None \/ Dim(sv) = 2)
    /\ \A i \in 1..Len(Steps) : pc = Steps[i] => (Len(calls) = i - 1 /\ succeeded = calls)
    /\ pc = "returned" => succeeded = Steps
    /\ (pc = "raised" /\ calls # <<>>)
         => (succeeded # calls /\ error.kind = calls[Len(calls)])
    /\ pc \in {"idle", "validate"} => calls = <<>>

C9_Witness ==
    /\ pc = "raised"
    /\ error.kind = "transcript"
    /\ calls = <<"wav2feature", "transcript">>
    /\ succeeded = <<"wav2feature">>

(***************************************************************************)
(* Properties of load_model (SpecLoad)                                     *)
(***************************************************************************)
Resolved == lpc \in {"build", "load", "to_device", "returned", "raised"}
LoadFinished == lpc \in {"returned", "raised"}
DefaultFor(amt) == IF amt THEN ConfigDefaultAmt ELSE ConfigDefaultPc

\* C4 as stated: without an explicit path the default selected by amt is
\* used; every supplied string, whatever its value, is used as the path.
C4_AnySuppliedPathUsed ==
    Resolved
        => /\ l_path_arg.tag = "None" => l_path = DefaultFor(l_amt)
           /\ l_path_arg.tag = "str" => l_path = l_path_arg.val

\* C4 (amended): without a path, or with the empty string, the default
\* selected by amt is used; every non-empty supplied path is used whatever
\* amt is, and it is the only path ever read.
C4_PathResolution ==
    /\ Resolved
        => /\ l_path_arg.tag = "None" => l_path = DefaultFor(l_amt)
           /\ (l_path_arg.tag = "str" /\ l_path_arg.val = "")
                => l_path = DefaultFor(l_amt)
           /\ (l_path_arg.tag = "str" /\ l_path_arg.val # "")
                => l_path = l_path_arg.val
    /\ \A i \in 1..Len(l_reads) : l_reads[i] = l_path

C4_Witness ==
    /\ lpc = "returned"
    /\ l_amt
    /\ l_path_arg = Str("ckpt/a.pth")
    /\ l_reads = <<"ckpt/a.pth">>

\* C5: with no_load no checkpoint is read at any point and the model is
\* returned whatever the resolved path holds; without no_load the resolved
\* path is read exactly once, and a missing or unreadable file makes
\* load_model raise instead of returning a model.
C5_ReadIffNotNoLoad ==
    /\ Len(l_reads) <= 1
    /\ l_no_load => l_reads = <<>>
    /\ (l_no_load /\ LoadFinished)
         => (lpc = "returned" /\ l_model.returned /\ l_model.weights = "random")
    /\ (~l_no_load /\ lpc \in {"to_device", "returned", "raised"})
         => l_reads = <<l_path>>
    /\ (~l_no_load /\ LoadFinished /\ l_files[l_path] # "ok")
         => (lpc = "raised" /\ ~l_model.returned /\ l_error # "")
    /\ (~l_no_load /\ LoadFinished /\ l_files[l_path] = "ok")
         => (lpc = "returned" /\ l_model.returned /\ l_model.weights = l_path)

C5_Witness ==
    /\ lpc = "returned"
    /\ l_no_load
    /\ l_files[l_path] = "missing"
    /\ l_model.returned
    /\ l_reads = <<>>

(***************************************************************************)
(* Properties of save_model (SpecSave)                                     *)
(***************************************************************************)
\* A key without its leading wrapper prefixes.
RECURSIVE StripFront(_)
StripFront(key) ==
    IF StartsWith(key, OrigModPrefix)
    THEN StripFront(SubSeq(key, Len(OrigModPrefix) + 1, Len(key)))
    ELSE IF StartsWith(key, ModulePrefix)
         THEN StripFront(SubSeq(key, Len(ModulePrefix) + 1, Len(key)))
         ELSE key

CheckpointKeys == { checkpoint[j][1] : j \in 1..Len(checkpoint) }

\* C2: every key is saved as the key without its leading "_orig_mod." and
\* "module." prefixes, the rest of the key untouched.
C2_FrontOnlyStripping ==
    spc \in {"saved", "reloaded"}
        => \A i \in 1..Len(state_dict) : StripFront(state_dict[i][1]) \in CheckpointKeys

\* C3: the checkpoint holds every reported parameter, in order, under its
\* stripped key with its value, and the plain architecture reloads every value.
C3_RoundTrip ==
    spc = "reloaded"
        => /\ Len(checkpoint) = Len(state_dict)
           /\ \A i \in 1..Len(state_dict) :
                /\ checkpoint[i] = <<StripFront(state_dict[i][1]), state_dict[i][2]>>
                /\ reloaded[i] = state_dict[i][2]

(***************************************************************************)
(* Properties of Spec2MIDI (SpecModel)                                     *)
(***************************************************************************)
CtorDone == mpc \in {"ready", "called", "raised"}
HasFc == "fc_sv" \in model.attrs
HasGate == "gate_sv" \in model.attrs

\* C7 as stated: whatever integer sv_dim the constructor gets, it yields a
\* model, on which fc_sv and gate_sv exist iff sv_dim > 0.
C7_SubnetsForEveryInteger ==
    CtorDone
        => /\ model.constructed
           /\ HasFc <=> m_sv_dim_arg > 0
           /\ HasGate <=> m_sv_dim_arg > 0

\* C7 (amended): for sv_dim >= 0 the constructor yields a model on which
\* fc_sv and gate_sv exist iff sv_dim > 0, fc_sv mapping sv_dim to
\* encoder.hid_dim; a negative sv_dim takes the style branch too, nn.Linear
\* raises, and no model, with or without the sub-networks, is constructed.
C7_SubnetsIffPositive ==
    CtorDone
        => /\ m_sv_dim_arg >= 0
                => /\ model.constructed
                   /\ HasFc <=> m_sv_dim_arg > 0
                   /\ HasGate <=> m_sv_dim_arg > 0
                   /\ HasFc => (model.fc_in = m_sv_dim_arg /\ model.fc_out = HidDim)
           /\ m_sv_dim_arg < 0
                => (~model.constructed /\ mpc = "raised" /\ ~HasFc /\ ~HasGate)
           /\ {"encoder", "decoder"} \subseteq model.attrs
           /\ model.attrs \cap {"encoder_spec2midi", "decoder_spec2midi"} = {}

C7_Witness ==
    /\ mpc = "ready"
    /\ m_sv_dim_arg = 2
    /\ HasFc /\ HasGate
    /\ model.fc_in = 2

\* C8: on a model built with sv_dim = 0, encode returns the encoder's output
\* whatever sv is, and forward returns decode of it, which is what forward
\* returns without a style vector.
C8_StyleIgnoredWithoutSvDim ==
    (mpc = "called" /\ model.sv_dim = 0)
        => /\ m_out.ok
           /\ m_op = "encode" => m_out.val = Encoder(m_x, m_batch)
           /\ m_op = "forward"
                => /\ m_out.val = Decode(Encoder(m_x, m_batch))
                   /\ m_out = Forward(model, w_seed, m_x, m_batch, NoSv)

C8_Witness ==
    /\ mpc = "called"
    /\ model.sv_dim = 0
    /\ m_sv # NoSv
    /\ m_op = "forward"
    /\ m_out.ok

StyleApplied ==
    /\ mpc = "called"
    /\ m_op = "encode"
    /\ model.sv_dim > 0
    /\ m_sv # NoSv
    /\ Len(m_sv[1]) = model.sv_dim

\* C10: with sv_dim > 0 and a style vector (of that dimension) supplied,
\* every element of encode's result is z*h + (1 - z)*p, where h is the
\* encoder's output, z = gate_sv(h) and p = fc_sv(sv) of the same batch entry
\* and hidden index at every frame and bin; it is h where z = 1 and p where
\* z = 0.
C10_ConvexFusion ==
    StyleApplied
        => /\ m_out.ok
           /\ \A b \in 1..m_batch, f \in 1..NFrame, n \in 1..NBin, k \in 1..HidDim :
                LET h == Encoder(m_x, m_batch)[b][f][n]
                    z == GateSv(w_seed, h)[k]
                    p == FcSv(w_seed, HidDim, m_sv[b])[k]
                    o == m_out.val[b][f][n][k]
                IN  /\ o * FxOne = z * h[k] + (FxOne - z) * p
                    /\ z = FxOne => o = h[k]
                    /\ z = 0 => o = p

C10_Witness ==
    /\ StyleApplied
    /\ m_out.ok
    /\ \E b \in 1..m_batch, f \in 1..NFrame, n \in 1..NBin, k \in 1..HidDim :
         LET h == Encoder(m_x, m_batch)[b][f][n]
         IN  /\ GateSv(w_seed, h)[k] = FxOne
             /\ h[k] # FcSv(w_seed, HidDim, m_sv[b])[k]
             /\ m_out.val[b][f][n][k] = h[k]
    /\ \E b \in 1..m_batch, f \in 1..NFrame, n \in 1..NBin, k \in 1..HidDim :
         LET h == Encoder(m_x, m_batch)[b][f][n]
         IN  /\ GateSv(w_seed, h)[k] = 0
             /\ h[k] # FcSv(w_seed, HidDim, m_sv[b])[k]
             /\ m_out.val[b][f][n][k] = FcSv(w_seed, HidDim, m_sv[b])[k]
====
